---- MODULE Spec2Model ----
(***************************************************************************)
(* Model of annotate.py, the command-line client of the annotation         *)
(* service: argument parsing, annotation-JSON validation, input read, the  *)
(* single POST, and the handling of the response.                          *)
(*                                                                         *)
(* Python values are represented as follows.                               *)
(*   None / a value      <<>> / <<v>>                                      *)
(*   argv tokens, file   TLA+ strings (atomic)                             *)
(*     contents read as text                                               *)
(*   response text       sequence of one-character strings                 *)
(*   JSON values         records tagged by t: "str" (v: sequence of text   *)
(*                       chunks), "int", "null", "list" (v: sequence of    *)
(*                       JSON values), "dict" (d: function on key strings) *)
(*   bytes               sequence of 0..255                                *)
(***************************************************************************)
EXTENDS Integers, Sequences, FiniteSets, TLC

\* ---------------------------------------------------------------- bounds
MaxArgs == 5

\* ------------------------------------------------------- program constants
TextLimit == 500

\* ------------------------------------------------------------ JSON values
JStr(chunks) == [t |-> "str", v |-> chunks]
JInt(n) == [t |-> "int", v |-> n]
JList(items) == [t |-> "list", v |-> items]
JDict(f) == [t |-> "dict", d |-> f]
EmptyDict == [k \in {} |-> JInt(0)]

\* isinstance(x, list) / isinstance(x, dict) on a JSON value
IsList(x) == x.t = "list"
IsDict(x) == x.t = "dict"
HasKey(x, k) == k \in DOMAIN x.d

\* ------------------------------------------------- command-line universe
HelpFlags == {"--help", "-h"}
ValueFlags == {"--json", "--url", "--author", "--initials"}
Words == {"a.docx", "[1]"}
Tokens == HelpFlags \cup ValueFlags \cup Words
ArgLists == UNION {[1..n -> Tokens] : n \in 0..MaxArgs}

\* what open(path, "r", encoding="utf-8").read() can yield for a --json file
JsonFileTexts == {"", "[2]", "{}"}
JsonReadOutcomes == {"oserror", "undecodable"} \cup JsonFileTexts

\* json.loads on the annotation texts that occur: the parsed value, or
\* ok = FALSE for json.JSONDecodeError
json_loads(s) ==
    CASE s = "[1]" -> [ok |-> TRUE, val |-> JList(<<JInt(1)>>)]
      [] s = "[2]" -> [ok |-> TRUE, val |-> JList(<<JInt(2)>>)]
      [] s = "{}"  -> [ok |-> TRUE, val |-> JDict(EmptyDict)]
      [] OTHER     -> [ok |-> FALSE]

\* ------------------------------------------------------- service responses
Statuses == {200, 422, 500}

Q == "\""
T_empty == << >>
T_long == [k \in 1..(TextLimit + 1) |-> "x"]
T_list == <<"[", "]">>
T_str == <<Q, "s", Q>>
T_error == <<"{", Q, "e", "r", "r", "o", "r", Q, ":", Q, "e", Q, "}">>
T_errors == <<"{", Q, "e", "r", "r", "o", "r", "s", Q, ":", "[",
              Q, "a", Q, ",", Q, "b", Q, "]", "}">>
T_errors_int == <<"{", Q, "e", "r", "r", "o", "r", "s", Q, ":", "1", "}">>
T_file == <<"{", Q, "f", "i", "l", "e", Q, ":", Q, "Q", "U", "I", "=", Q, "}">>
T_file_bad == <<"{", Q, "f", "i", "l", "e", Q, ":", Q, "Q", "U", "I", Q, "}">>
T_file_int == <<"{", Q, "f", "i", "l", "e", Q, ":", "1", "}">>
T_longdict == <<"{", Q, "k", Q, ":", Q>> \o T_long \o <<Q, "}">>

BodyTexts == {T_empty, T_long, T_list, T_str, T_error,
              T_errors, T_errors_int, T_file, T_file_bad, T_file_int,
              T_longdict}

\* resp.json() on the body texts that occur: the parsed value, or ok = FALSE
\* for the JSONDecodeError / ValueError it raises
resp_json(text) ==
    CASE text = T_list -> [ok |-> TRUE, val |-> JList(<< >>)]
      [] text = T_str -> [ok |-> TRUE, val |-> JStr(<<"s">>)]
      [] text = T_error ->
            [ok |-> TRUE, val |-> JDict([k \in {"error"} |-> JStr(<<"e">>)])]
      [] text = T_errors ->
            [ok |-> TRUE,
             val |-> JDict([k \in {"errors"} |->
                              JList(<<JStr(<<"a">>), JStr(<<"b">>)>>)])]
      [] text = T_errors_int ->
            [ok |-> TRUE, val |-> JDict([k \in {"errors"} |-> JInt(1)])]
      [] text = T_file ->
            [ok |-> TRUE,
             val |-> JDict([k \in {"file"} |-> JStr(<<"Q", "U", "I", "=">>)])]
      [] text = T_file_bad ->
            [ok |-> TRUE,
             val |-> JDict([k \in {"file"} |-> JStr(<<"Q", "U", "I">>)])]
      [] text = T_file_int ->
            [ok |-> TRUE, val |-> JDict([k \in {"file"} |-> JInt(1)])]
      [] text = T_longdict ->
            [ok |-> TRUE, val |-> JDict([k \in {"k"} |-> JStr(T_long)])]
      [] OTHER -> [ok |-> FALSE]

\* text[:n]
Prefix(text, n) == SubSeq(text, 1, IF Len(text) < n THEN Len(text) ELSE n)

\* ------------------------------------------------------------------ base64
B64Alphabet ==
    <<"A", "B", "C", "D", "E", "F", "G", "H", "I", "J", "K", "L", "M",
      "N", "O", "P", "Q", "R", "S", "T", "U", "V", "W", "X", "Y", "Z",
      "a", "b", "c", "d", "e", "f", "g", "h", "i", "j", "k", "l", "m",
      "n", "o", "p", "q", "r", "s", "t", "u", "v", "w", "x", "y", "z",
      "0", "1", "2", "3", "4", "5", "6", "7", "8", "9", "+", "/">>
B64Chars == {B64Alphabet[k] : k \in 1..64}
B64Index(c) == (CHOOSE k \in 1..64 : B64Alphabet[k] = c) - 1

RECURSIVE B64Bytes(_)
B64Bytes(d) ==
    IF Len(d) >= 4
    THEN LET n == B64Index(d[1]) * 262144 + B64Index(d[2]) * 4096
                  + B64Index(d[3]) * 64 + B64Index(d[4])
         IN  <<n \div 65536, (n \div 256) % 256, n % 256>>
                 \o B64Bytes(SubSeq(d, 5, Len(d)))
    ELSE IF Len(d) = 3
    THEN LET n == B64Index(d[1]) * 4096 + B64Index(d[2]) * 64 + B64Index(d[3])
         IN  <<n \div 1024, (n \div 4) % 256>>
    ELSE IF Len(d) = 2
    THEN LET n == B64Index(d[1]) * 64 + B64Index(d[2])
         IN  <<n \div 16>>
    ELSE << >>

\* base64.b64decode(x) with the default validate=False: characters outside
\* the alphabet are discarded, the data characters before the padding are
\* decoded, and a quantum left incomplete by the padding is binascii.Error
\* (a ValueError); an argument that is not a string is a TypeError.
b64decode(x) ==
    IF x.t # "str" THEN [res |-> "TypeError"]
    ELSE LET kept == SelectSeq(x.v, LAMBDA c : c \in B64Chars \cup {"="})
             data == SelectSeq(kept, LAMBDA c : c # "=")
             pads == Len(kept) - Len(data)
             r == Len(data) % 4
         IN  IF r = 0 \/ (r = 2 /\ pads >= 2) \/ (r = 3 /\ pads >= 1)
             THEN [res |-> "ok", bytes |-> B64Bytes(data)]
             ELSE [res |-> "ValueError"]

\* ------------------------------------------------------------------- files
OldBytes == <<111, 108, 100>>
DocBytes == <<80, 75>>
NoFile == [exists |-> FALSE, data |-> << >>]
FileOf(bytes) == [exists |-> TRUE, data |-> bytes]

NoResp == [status |-> 0, text |-> << >>]

VARIABLES
    args,              \* sys.argv[1:]
    i,                 \* index of the parsing loop
    positional,
    annotations_json,  \* <<>> is None
    service_url,
    author,
    initials,
    input_path,        \* <<>> is None
    output_path,       \* <<>> is None
    annotations,       \* <<>> before validation
    file_bytes,
    json_file,         \* outcome of the last read of a --json file, <<>> if none
    posts,             \* the requests handed to requests.post
    resp,              \* the response object, NoResp before it is received
    envelope,          \* <<>> before resp.json() on the success path
    outFile,           \* the file at the output path
    outFile0,          \* the file at the output path when the run starts
    outOpen,           \* the output file handle is open
    outFault,          \* the file system refused the open or a write of the output
    stdout,            \* what has been printed
    exitCode,          \* -1 while running
    crashed,           \* the run ended in an uncaught exception
    pc

vars == <<args, i, positional, annotations_json, service_url, author,
          initials, input_path, output_path, annotations, file_bytes,
          json_file, posts, resp, envelope, outFile, outFile0, outOpen,
          outFault, stdout, exitCode, crashed, pc>>

parseVars == <<i, positional, annotations_json, service_url, author,
               initials, json_file>>
inputVars == <<input_path, output_path, annotations, file_bytes>>
netVars == <<posts, resp, envelope>>
outVars == <<outFile, outOpen, outFault>>

Init ==
    /\ args \in ArgLists
    /\ i = 0
    /\ positional = << >>
    /\ annotations_json = << >>
    /\ service_url = "https://comments-service.edumagick.com/"
    /\ author = "AI Assistant"
    /\ initials = "AI"
    /\ input_path = << >>
    /\ output_path = << >>
    /\ annotations = << >>
    /\ file_bytes = << >>
    /\ json_file = << >>
    /\ posts = << >>
    /\ resp = NoResp
    /\ envelope = << >>
    /\ outFile \in {NoFile, FileOf(OldBytes)}
    /\ outFile0 = outFile
    /\ outOpen = FALSE
    /\ outFault = FALSE
    /\ stdout = << >>
    /\ exitCode = -1
    /\ crashed = FALSE
    /\ pc = "parse"

\* ------------------------------------------------------------ termination
\* print(json.dumps(obj))
Emit(obj) == Append(stdout, [kind |-> "json", obj |-> obj])

\* bail(msg): print {"ok": false, "error": msg}, sys.exit(1)
bail(msg) ==
    /\ stdout' = Emit([ok |-> FALSE, error |-> msg])
    /\ exitCode' = 1
    /\ crashed' = crashed
    /\ pc' = "done"

\* an exception no handler catches: traceback on stderr, exit status 1
Uncaught ==
    /\ stdout' = stdout
    /\ exitCode' = 1
    /\ crashed' = TRUE
    /\ pc' = "done"

Goto(label) ==
    /\ pc' = label
    /\ UNCHANGED <<stdout, exitCode, crashed>>

\* args[i] of the code, for the 0-based index k
Arg(k) == args[k + 1]


\* Python truthiness of an optional string: None and "" are falsy
Falsy(x) == x = << >> \/ x[1] = ""

\* os.path.abspath of a relative path: the working directory joined with it
abspath(p) == <<"/cwd", p>>

\* service_url.rstrip("/"), on the URLs that occur (no token ends in "/")
rstrip_slash(u) ==
    IF u = "https://comments-service.edumagick.com/"
    THEN "https://comments-service.edumagick.com"
    ELSE u

\* ---------------------------------------------------------- parsing loop
\* mutation: the short spelling of the help flag is not recognised
IsHelp_LongOnly(arg) == arg = "--help"

\* line 81
IsHelp(arg) == arg \in {"--help", "-h"}

InLoop == pc = "parse" /\ i < Len(args)

\* elif-chain of the loop body: the branch taken for an argument
IsPositional(arg) ==
    arg \notin {"--json", "--url", "--author", "--initials"} /\ ~IsHelp(arg)

ArgJson ==
    /\ InLoop
    /\ Arg(i) = "--json"
    /\ UNCHANGED <<args, positional, service_url, author, initials>>
    /\ UNCHANGED <<inputVars, netVars, outVars, outFile0>>
    /\ IF i + 1 >= Len(args)
       THEN /\ bail(JStr(<<"Cannot read JSON file: ", "IndexError">>))
            /\ i' = i + 1
            /\ UNCHANGED <<annotations_json, json_file>>
       ELSE \E o \in JsonReadOutcomes :
              CASE o = "oserror" ->
                     /\ bail(JStr(<<"Cannot read JSON file: ", "OSError">>))
                     /\ i' = i + 1
                     /\ json_file' = <<o>>
                     /\ UNCHANGED annotations_json
                [] o = "undecodable" ->
                     /\ Uncaught      \* UnicodeDecodeError
                     /\ i' = i + 1
                     /\ json_file' = <<o>>
                     /\ UNCHANGED annotations_json
                [] OTHER ->
                     /\ annotations_json' = <<o>>
                     /\ json_file' = <<o>>
                     /\ i' = i + 2
                     /\ Goto("parse")

ArgUrl ==
    /\ InLoop
    /\ Arg(i) = "--url"
    /\ UNCHANGED <<args, positional, annotations_json, author, initials,
                   json_file>>
    /\ UNCHANGED <<inputVars, netVars, outVars, outFile0>>
    /\ IF i + 1 >= Len(args)
       THEN /\ bail(JStr(<<"Missing value for --url">>))
            /\ i' = i + 1
            /\ UNCHANGED service_url
       ELSE /\ service_url' = Arg(i + 1)
            /\ i' = i + 2
            /\ Goto("parse")

ArgAuthor ==
    /\ InLoop
    /\ Arg(i) = "--author"
    /\ UNCHANGED <<args, positional, annotations_json, service_url, initials,
                   json_file>>
    /\ UNCHANGED <<inputVars, netVars, outVars, outFile0>>
    /\ IF i + 1 >= Len(args)
       THEN /\ bail(JStr(<<"Missing value for --author">>))
            /\ i' = i + 1
            /\ UNCHANGED author
       ELSE /\ author' = Arg(i + 1)
            /\ i' = i + 2
            /\ Goto("parse")

ArgInitials ==
    /\ InLoop
    /\ Arg(i) = "--initials"
    /\ UNCHANGED <<args, positional, annotations_json, service_url, author,
                   json_file>>
    /\ UNCHANGED <<inputVars, netVars, outVars, outFile0>>
    /\ IF i + 1 >= Len(args)
       THEN /\ bail(JStr(<<"Missing value for --initials">>))
            /\ i' = i + 1
            /\ UNCHANGED initials
       ELSE /\ initials' = Arg(i + 1)
            /\ i' = i + 2
            /\ Goto("parse")

ArgHelp ==
    /\ InLoop
    /\ Arg(i) \notin {"--json", "--url", "--author", "--initials"}
    /\ IsHelp(Arg(i))
    /\ stdout' = Append(stdout, [kind |-> "usage"])
    /\ exitCode' = 0
    /\ pc' = "done"
    /\ UNCHANGED <<args, parseVars, inputVars, netVars, outVars, outFile0,
                   crashed>>

ArgPositional ==
    /\ InLoop
    /\ IsPositional(Arg(i))
    /\ positional' = Append(positional, Arg(i))
    /\ i' = i + 1
    /\ Goto("parse")
    /\ UNCHANGED <<args, annotations_json, service_url, author, initials,
                   json_file>>
    /\ UNCHANGED <<inputVars, netVars, outVars, outFile0>>

\* ------------------------------------------- positionals and usage check
\* mutation: a third positional replaces the text read from the --json file
PositionalFallback_InlineWins(aj, pos) ==
    IF Len(pos) > 2 THEN <<pos[3]>> ELSE aj

\* lines 109-110: the third positional is the annotation text only when no
\* --json file was read
PositionalFallback(aj, pos) ==
    IF aj = << >> /\ Len(pos) > 2 THEN <<pos[3]>> ELSE aj

UsageError(ip, op, aj) == Falsy(ip) \/ Falsy(op) \/ Falsy(aj)

UsageText ==
    JStr(<<"Usage: python3 annotate.py <input.docx> <output.docx> '<json>' [--json FILE] [--url URL] [--author NAME] [--initials XX]">>)

ParseEnd ==
    /\ pc = "parse"
    /\ i >= Len(args)
    /\ LET ip == IF Len(positional) > 0 THEN <<positional[1]>> ELSE << >>
           op == IF Len(positional) > 1 THEN <<positional[2]>> ELSE << >>
           aj == PositionalFallback(annotations_json, positional)
       IN  /\ input_path' = ip
           /\ output_path' = op
           /\ annotations_json' = aj
           /\ IF UsageError(ip, op, aj)
              THEN bail(UsageText)
              ELSE Goto("validate")
    /\ UNCHANGED <<args, i, positional, service_url, author, initials,
                   json_file, annotations, file_bytes>>
    /\ UNCHANGED <<netVars, outVars, outFile0>>

\* ------------------------------------------------ annotation validation
\* mutation: the isinstance(annotations, list) check is missing
ValidAnnotations_AnyJson(r) == r.ok

\* lines 116-121
ValidAnnotations(r) == r.ok /\ IsList(r.val)

Validate ==
    /\ pc = "validate"
    /\ LET r == json_loads(annotations_json[1])
       IN  IF ValidAnnotations(r)
           THEN /\ annotations' = <<r.val>>
                /\ Goto("read")
           ELSE /\ bail(JStr(<<"Invalid annotations JSON: ",
                               IF r.ok THEN "Expected a JSON array of annotations"
                                       ELSE "JSONDecodeError">>))
                /\ UNCHANGED annotations
    /\ UNCHANGED <<args, parseVars, input_path, output_path, file_bytes>>
    /\ UNCHANGED <<netVars, outVars, outFile0>>

\* ------------------------------------------------------------ input read
\* lines 125-130
ReadInput ==
    /\ pc = "read"
    /\ \E readable \in BOOLEAN :
         IF readable
         THEN /\ file_bytes' = DocBytes
              /\ Goto("post")
         ELSE /\ bail(JStr(<<"Cannot read input file: ", "OSError">>))
              /\ UNCHANGED file_bytes
    /\ UNCHANGED <<args, parseVars, input_path, output_path, annotations>>
    /\ UNCHANGED <<netVars, outVars, outFile0>>

\* ---------------------------------------------------------------- request
\* lines 134-135
Request ==
    [url |-> <<rstrip_slash(service_url), "/api/annotate">>,
     file |-> file_bytes,
     author |-> author,
     initials |-> initials,
     annotations |-> annotations[1]]

\* mutation: the message does not carry the URL
ConnectError_NoUrl(u) ==
    JStr(<<"Cannot connect to annotation service", ": ", "RequestException">>)

\* line 149
ConnectError(u) ==
    JStr(<<"Cannot connect to annotation service at ", u, ": ",
           "RequestException">>)

\* lines 137-149: the single blocking call; it raises RequestException
\* (unreachable, timeout) or returns the response
Post ==
    /\ pc = "post"
    /\ posts' = Append(posts, Request)
    /\ \/ /\ bail(ConnectError(service_url))
          /\ UNCHANGED resp
       \/ \E st \in Statuses, tx \in BodyTexts :
            /\ resp' = [status |-> st, text |-> tx]
            /\ Goto("response")
    /\ UNCHANGED <<args, parseVars, inputVars, envelope, outVars, outFile0>>

\* ------------------------------------------------------ response handling
\* mutation: a 422 response is taken for a success
StatusOk_Or422(r) == r.status \in {200, 422}

\* line 153
StatusOk(r) == r.status = 200

\* line 161
SemanticFailure(st, err) ==
    st = 422 /\ IsDict(err) /\ HasKey(err, "errors") /\ IsList(err.d["errors"])

\* mutation: the last entry of the errors list is lost
SemanticErrorObject_Truncated(err) ==
    [ok |-> FALSE,
     error |-> JStr(<<"One or more annotations could not be applied.">>),
     errors |-> JList(SubSeq(err.d["errors"].v, 1,
                             Len(err.d["errors"].v) - 1))]

\* lines 162-166
SemanticErrorObject(err) ==
    [ok |-> FALSE,
     error |-> JStr(<<"One or more annotations could not be applied.">>),
     errors |-> err.d["errors"]]

\* line 169: err.get("error", resp.text[:500])
ErrorOf(err, text) ==
    IF HasKey(err, "error") THEN err.d["error"]
    ELSE JStr(Prefix(text, TextLimit))

\* lines 153-169
HandleError ==
    /\ pc = "response"
    /\ ~StatusOk(resp)
    /\ LET r == resp_json(resp.text)
       IN  IF ~r.ok
           THEN bail(JStr(Prefix(resp.text, TextLimit)))
           ELSE IF SemanticFailure(resp.status, r.val)
           THEN /\ stdout' = Emit(SemanticErrorObject(r.val))
                /\ exitCode' = 2
                /\ crashed' = crashed
                /\ pc' = "done"
           ELSE IF ~IsDict(r.val)
           THEN Uncaught      \* AttributeError: no attribute 'get'
           ELSE bail(ErrorOf(r.val, resp.text))
    /\ UNCHANGED <<args, parseVars, inputVars, netVars, outVars, outFile0>>

Unexpected(e) == JStr(<<"Unexpected response from service: ", e>>)

\* lines 174-176: resp.json(), then open(out_path, "wb") creates or
\* truncates the output file
OpenOutput ==
    /\ pc = "response"
    /\ StatusOk(resp)
    /\ LET r == resp_json(resp.text)
       IN  IF ~r.ok
           THEN /\ bail(Unexpected("JSONDecodeError"))
                /\ UNCHANGED <<envelope, outFile, outOpen, outFault>>
           ELSE /\ envelope' = <<r.val>>
                /\ \E opened \in BOOLEAN :
                     IF opened
                     THEN /\ outFile' = FileOf(<< >>)
                          /\ outOpen' = TRUE
                          /\ Goto("write")
                          /\ UNCHANGED outFault
                     ELSE /\ bail(Unexpected("OSError"))
                          /\ outFault' = TRUE
                          /\ UNCHANGED <<outFile, outOpen>>
    /\ UNCHANGED <<args, parseVars, inputVars, posts, resp, outFile0>>

\* mutation: the last decoded byte is not written
DecodedFile_Short(env) ==
    LET r == b64decode(env.d["file"])
    IN  IF r.res = "ok"
        THEN [res |-> "ok", bytes |-> SubSeq(r.bytes, 1, Len(r.bytes) - 1)]
        ELSE r

\* line 177: base64.b64decode(envelope["file"])
DecodedFile(env) == b64decode(env.d["file"])

\* line 179
SuccessObject(path) == [ok |-> TRUE, output |-> abspath(path)]

\* lines 177-183, with the output file open; leaving the with block closes it
WriteOutput ==
    /\ pc = "write"
    /\ outOpen' = FALSE
    /\ LET env == envelope[1]
       IN  IF ~IsDict(env)
           THEN /\ Uncaught      \* TypeError: envelope["file"]
                /\ UNCHANGED <<outFile, outFault>>
           ELSE IF ~HasKey(env, "file")
           THEN /\ bail(Unexpected("KeyError"))
                /\ UNCHANGED <<outFile, outFault>>
           ELSE LET dec == DecodedFile(env)
                IN  CASE dec.res = "TypeError" ->
                           /\ Uncaught
                           /\ UNCHANGED <<outFile, outFault>>
                      [] dec.res = "ValueError" ->
                           /\ bail(Unexpected("binascii.Error"))
                           /\ UNCHANGED <<outFile, outFault>>
                      [] OTHER ->
                           \/ /\ outFile' = FileOf(dec.bytes)
                              /\ stdout' = Emit(SuccessObject(output_path[1]))
                              /\ exitCode' = 0
                              /\ crashed' = crashed
                              /\ pc' = "done"
                              /\ UNCHANGED outFault
                           \/ \E k \in 0..(Len(dec.bytes) - 1) :
                                /\ outFile' = FileOf(SubSeq(dec.bytes, 1, k))
                                /\ outFault' = TRUE
                                /\ bail(Unexpected("OSError"))
    /\ UNCHANGED <<args, parseVars, inputVars, netVars, outFile0>>

Next ==
    \/ ArgJson
    \/ ArgUrl
    \/ ArgAuthor
    \/ ArgInitials
    \/ ArgHelp
    \/ ArgPositional
    \/ ParseEnd
    \/ Validate
    \/ ReadInput
    \/ Post
    \/ HandleError
    \/ OpenOutput
    \/ WriteOutput

Spec == Init /\ [][Next]_vars

\* ======================================================================
\* Properties
\* ======================================================================
Done == pc = "done"

\* the run printed the usage text (--help / -h)
HelpRun == stdout # << >> /\ stdout[1].kind = "usage"

\* exactly one JSON object {ok: false, error: ...} was printed
OneFailureObject ==
    /\ Len(stdout) = 1
    /\ stdout[1].kind = "json"
    /\ stdout[1].obj.ok = FALSE
    /\ "error" \in DOMAIN stdout[1].obj

\* exactly the object {ok: true, output: <absolute output path>} was printed,
\* the output path being the second positional argument
OneSuccessObject ==
    /\ Len(positional) >= 2
    /\ stdout = <<[kind |-> "json",
                   obj |-> [ok |-> TRUE, output |-> <<"/cwd", positional[2]>>]]>>

\* the bytes that the base64 text "QUI=" encodes: "AB"
BytesAB == <<65, 66>>

\* position k of args (1-based) is read as an argument of its own, not
\* consumed as the value of a preceding --json/--url/--author/--initials
RECURSIVE AtFlagPos(_)
AtFlagPos(k) ==
    IF k = 1 THEN TRUE
    ELSE ~(AtFlagPos(k - 1) /\ args[k - 1] \in ValueFlags)

\* --json <file> was supplied on the command line
JsonSupplied ==
    \E k \in 1..(Len(args) - 1) : AtFlagPos(k) /\ args[k] = "--json"

\* the --url value in effect (the last one given), or the default
ConfiguredUrl ==
    LET ks == {k \in 1..(Len(args) - 1) : AtFlagPos(k) /\ args[k] = "--url"}
    IN  IF ks = {} THEN "https://comments-service.edumagick.com/"
        ELSE args[(CHOOSE k \in ks : \A m \in ks : m <= k) + 1]

\* the response is a 422 whose JSON object body has a list under "errors"
Is422WithErrors ==
    /\ resp.status = 422
    /\ resp_json(resp.text).ok
    /\ resp_json(resp.text).val.t = "dict"
    /\ "errors" \in DOMAIN resp_json(resp.text).val.d
    /\ resp_json(resp.text).val.d["errors"].t = "list"

\* C1: every run ends either with the complete decoded document at the
\* output path and success reported, or with the output path exactly as it
\* was before the run and a failure reported (the file system accepting the
\* output writes).
C1_OutputAllOrNothing ==
    (Done /\ ~HelpRun /\ ~outFault) =>
        \/ /\ exitCode = 0
           /\ OneSuccessObject
           /\ resp.text = T_file
           /\ outFile = [exists |-> TRUE, data |-> BytesAB]
        \/ /\ exitCode # 0
           /\ outFile = outFile0

\* C2: every run that is neither a success nor --help ends by printing
\* exactly one JSON object {ok: false, error: ...} and exiting non-zero,
\* never in an uncaught exception.
C2_FailureIsOneJsonObject ==
    (Done /\ ~HelpRun /\ ~(exitCode = 0 /\ OneSuccessObject)) =>
        /\ ~crashed
        /\ OneFailureObject
        /\ exitCode \in {1, 2}

\* C3: a 422 response whose JSON object body has an errors list makes the
\* run exit 2, leave the output path untouched and print one object
\* {ok: false, error, errors} whose errors equal the received list, element
\* for element and in order.
C3_SemanticFailureExit2 ==
    (Done /\ Is422WithErrors) =>
        LET received == resp_json(resp.text).val.d["errors"].v
        IN  /\ exitCode = 2
            /\ outFile = outFile0
            /\ OneFailureObject
            /\ DOMAIN stdout[1].obj = {"ok", "error", "errors"}
            /\ stdout[1].obj.errors.t = "list"
            /\ Len(stdout[1].obj.errors.v) = Len(received)
            /\ \A k \in 1..Len(received) :
                   stdout[1].obj.errors.v[k] = received[k]

W3_SemanticFailure ==
    /\ Done
    /\ Is422WithErrors
    /\ exitCode = 2
    /\ Len(stdout[1].obj.errors.v) = 2

\* C4: the POST is only sent after the whole command line was parsed, two
\* paths and an annotation text that is a JSON array were found, and the
\* input file was read; a run that ends without a POST and without --help
\* exits 1 and leaves the output path untouched.
C4_LocalErrorsBeforePost ==
    /\ posts # << >> =>
          /\ i >= Len(args)
          /\ Len(positional) >= 2
          /\ annotations_json # << >>
          /\ annotations_json[1] \in {"[1]", "[2]"}
          /\ annotations # << >>
          /\ annotations[1].t = "list"
          /\ file_bytes = DocBytes
    /\ (Done /\ posts = << >> /\ ~HelpRun) =>
          /\ exitCode = 1
          /\ outFile = outFile0
    /\ (pc \in {"parse", "validate", "read", "post"}) =>
          /\ posts = << >>
          /\ outFile = outFile0

W4_NonArrayRejected ==
    /\ Done
    /\ annotations_json = <<"{}">>
    /\ input_path # << >>
    /\ output_path # << >>
    /\ exitCode = 1
    /\ posts = << >>

\* C5: with valid inputs, a 200 response whose JSON body has a valid base64
\* file field and an output path the file system accepts, the run writes
\* exactly the decoded bytes, prints {ok: true, output: <absolute output
\* path>} and exits 0.
C5_SuccessWritesDecodedBytes ==
    (Done /\ resp.status = 200 /\ resp.text = T_file /\ ~outFault) =>
        /\ outFile = [exists |-> TRUE, data |-> BytesAB]
        /\ ~outOpen
        /\ OneSuccessObject
        /\ exitCode = 0
        /\ ~crashed

W5_Written ==
    /\ Done
    /\ resp.status = 200
    /\ resp.text = T_file
    /\ exitCode = 0
    /\ outFile0.exists
    /\ outFile.data = BytesAB

\* C6: for a response that is neither 200 nor a 422 with an errors list the
\* run exits 1 and prints one object whose error is the body's error field
\* when the body is JSON carrying one, otherwise the first 500 characters of
\* the response text, whatever the shape of the JSON body.
C6_ErrorFieldOrRawText ==
    (Done /\ resp.status \notin {0, 200} /\ ~Is422WithErrors) =>
        LET r == resp_json(resp.text)
            carries == r.ok /\ r.val.t = "dict" /\ "error" \in DOMAIN r.val.d
        IN  /\ exitCode = 1
            /\ ~crashed
            /\ OneFailureObject
            /\ IF carries
               THEN stdout[1].obj.error = r.val.d["error"]
               ELSE /\ stdout[1].obj.error.t = "str"
                    /\ Len(stdout[1].obj.error.v) <= TextLimit
                    /\ Len(stdout[1].obj.error.v) <= Len(resp.text)
                    /\ (Len(stdout[1].obj.error.v) = TextLimit
                          \/ Len(stdout[1].obj.error.v) = Len(resp.text))
                    /\ \A k \in 1..Len(stdout[1].obj.error.v) :
                           stdout[1].obj.error.v[k] = resp.text[k]

\* C7: at most one request is ever issued, and when the POST fails before
\* any response arrives the run exits 1 with one JSON error whose message
\* names the configured service URL, the output path untouched.
C7_ConnectFailureNoRetry ==
    /\ Len(posts) <= 1
    /\ (Done /\ posts # << >> /\ resp = NoResp) =>
          /\ exitCode = 1
          /\ OneFailureObject
          /\ stdout[1].obj.error.t = "str"
          /\ \E k \in 1..Len(stdout[1].obj.error.v) :
                 stdout[1].obj.error.v[k] = ConfiguredUrl
          /\ outFile = outFile0

W7_ConnectFailure ==
    /\ Done
    /\ Len(posts) = 1
    /\ resp = NoResp
    /\ ConfiguredUrl = "a.docx"
    /\ exitCode = 1

\* C8 (as stated): whenever --help or -h occurs anywhere among the
\* arguments the run prints the usage text and exits 0 with no request and
\* no output written.
C8_HelpAnywhere ==
    (Done /\ \E k \in 1..Len(args) : args[k] \in HelpFlags) =>
        /\ exitCode = 0
        /\ stdout = <<[kind |-> "usage"]>>
        /\ posts = << >>
        /\ outFile = outFile0

\* the read of every --json file attempted so far succeeded
JsonReadsOk == json_file = << >> \/ json_file[1] \in JsonFileTexts

\* C8 (amended): whenever --help or -h occurs at a position that is not
\* consumed as the value of a preceding --json/--url/--author/--initials,
\* and no --json file named before it failed to be read, the run prints the
\* usage text and exits 0 with no request and no output written.
C8_HelpAtFlagPosition ==
    (Done /\ JsonReadsOk
          /\ \E k \in 1..Len(args) : AtFlagPos(k) /\ args[k] \in HelpFlags) =>
        /\ exitCode = 0
        /\ stdout = <<[kind |-> "usage"]>>
        /\ posts = << >>
        /\ outFile = outFile0

W8_HelpAfterValueFlag ==
    /\ Done
    /\ Len(args) >= 3
    /\ args[1] \in ValueFlags
    /\ args[3] = "-h"
    /\ exitCode = 0
    /\ stdout = <<[kind |-> "usage"]>>

\* C9: when --json <file> was supplied, the annotations sent are those read
\* from that file, whether or not a third positional argument was given as
\* well and whatever the order; the third positional argument is sent only
\* when no --json was supplied.
C9_JsonFileWins ==
    posts # << >> =>
        IF JsonSupplied
        THEN /\ json_file # << >>
             /\ json_file[1] = "[2]"
             /\ posts[1].annotations = [t |-> "list", v |-> <<[t |-> "int", v |-> 2]>>]
        ELSE /\ Len(positional) >= 3
             /\ positional[3] = "[1]"
             /\ posts[1].annotations = [t |-> "list", v |-> <<[t |-> "int", v |-> 1]>>]

W9_BothGiven ==
    /\ posts # << >>
    /\ JsonSupplied
    /\ args[1] = "--json"
    /\ Len(positional) = 3
    /\ positional[3] = "[1]"
    /\ posts[1].annotations.v[1].v = 2

\* C10: exit code 0 without --help, and the printed {ok: true} object, occur
\* only after a 200 response was received, its file field decoded, and the
\* output file completely written and closed.
C10_SuccessOnlyAfterWrite ==
    ((exitCode = 0 /\ ~HelpRun)
        \/ (\E k \in 1..Len(stdout) :
               stdout[k].kind = "json" /\ stdout[k].obj.ok = TRUE)) =>
        /\ Done
        /\ exitCode = 0
        /\ Len(posts) = 1
        /\ resp.status = 200
        /\ resp.text = T_file
        /\ ~outOpen
        /\ outFile = [exists |-> TRUE, data |-> BytesAB]
        /\ OneSuccessObject

W10_Success ==
    /\ Done
    /\ exitCode = 0
    /\ ~HelpRun
    /\ ~outFile0.exists
    /\ outFile.exists

====
